---- MODULE Spec2Model ----
(***************************************************************************)
(* CivicSentinel: person detection in restricted zones.                    *)
(*                                                                         *)
(* Conventions of the model                                                *)
(*   - a confidence is an integer number of hundredths (0.3 is 30);        *)
(*   - pixel coordinates are integers; the centre of a bounding box,       *)
(*     (x1+x2)/2, may be a half pixel, so every point handed to the        *)
(*     geometry is kept in half pixels (the integer 2c stands for c);      *)
(*   - a JSON text is a sequence of tokens <<kind, value>> with kind one   *)
(*     of "[", "]", ",", "n" (a number) and "w" (anything that is not      *)
(*     JSON);                                                              *)
(*   - Python's None is the empty sequence where the field is a string.    *)
(***************************************************************************)
EXTENDS Integers, Sequences, FiniteSets, TLC

(***************************************************************************)
(* Bounds                                                                  *)
(***************************************************************************)
MaxBoxes == 2
MaxZones == 2
MaxAlerts == 2
MaxTime == 1
MaxRequests == 2
MaxPoints == 3
MaxDemoZones == 1

(***************************************************************************)
(* Program constants                                                       *)
(***************************************************************************)
ConfThreshold == 30
MinWidth == 20
MinHeight == 40
PersonClassId == 0
NaN == -100000

(***************************************************************************)
(* Floating point: NaN propagates through arithmetic and makes every       *)
(* comparison false.                                                       *)
(***************************************************************************)
FAdd(a, b) == IF a = NaN \/ b = NaN THEN NaN ELSE a + b
FSub(a, b) == IF a = NaN \/ b = NaN THEN NaN ELSE a - b
FLt(a, b) == a # NaN /\ b # NaN /\ a < b
FGe(a, b) == a # NaN /\ b # NaN /\ a >= b
FLe(a, b) == a # NaN /\ b # NaN /\ a <= b

(***************************************************************************)
(* json.dumps / json.loads                                                 *)
(***************************************************************************)
Tok(k, v) == <<k, v>>
JNum(n) == [t |-> "num", v |-> n]
JArr(s) == [t |-> "arr", v |-> s]
JStr(c) == [t |-> "str", v |-> c]
JBool(b) == [t |-> "bool", v |-> b]
JNull == [t |-> "null", v |-> 0]
JFail == [ok |-> FALSE, val |-> JNum(0), next |-> 0]

RECURSIVE DumpItems(_, _)
DumpItems(s, inner) ==
    IF s = <<>> THEN <<>>
    ELSE LET head == IF inner THEN <<Tok("n", Head(s))>>
                     ELSE <<Tok("[", 0)>> \o DumpItems(Head(s), TRUE) \o <<Tok("]", 0)>>
         IN  IF Len(s) = 1 THEN head
             ELSE head \o <<Tok(",", 0)>> \o DumpItems(Tail(s), inner)

\* json.dumps(coordinates) for coordinates: List[List[float]]
json_dumps(coords) == <<Tok("[", 0)>> \o DumpItems(coords, FALSE) \o <<Tok("]", 0)>>

RECURSIVE ParseValue(_, _), ParseItems(_, _, _)
ParseValue(toks, i) ==
    IF i > Len(toks) THEN JFail
    ELSE IF toks[i][1] = "n" THEN [ok |-> TRUE, val |-> JNum(toks[i][2]), next |-> i + 1]
    ELSE IF toks[i][1] = "s" THEN [ok |-> TRUE, val |-> JStr(toks[i][2]), next |-> i + 1]
    ELSE IF toks[i][1] = "b" THEN [ok |-> TRUE, val |-> JBool(toks[i][2]), next |-> i + 1]
    ELSE IF toks[i][1] = "null" THEN [ok |-> TRUE, val |-> JNull, next |-> i + 1]
    ELSE IF toks[i][1] = "[" THEN
        IF i + 1 <= Len(toks) /\ toks[i + 1][1] = "]"
        THEN [ok |-> TRUE, val |-> JArr(<<>>), next |-> i + 2]
        ELSE ParseItems(toks, i + 1, <<>>)
    ELSE JFail

ParseItems(toks, i, acc) ==
    LET r == ParseValue(toks, i) IN
    IF ~r.ok THEN JFail
    ELSE IF r.next > Len(toks) THEN JFail
    ELSE IF toks[r.next][1] = "]"
         THEN [ok |-> TRUE, val |-> JArr(Append(acc, r.val)), next |-> r.next + 1]
    ELSE IF toks[r.next][1] = ","
         THEN ParseItems(toks, r.next + 1, Append(acc, r.val))
    ELSE JFail

\* json.loads(text): the value, or a raised JSONDecodeError (ok = FALSE)
json_loads(text) ==
    LET r == ParseValue(text, 1) IN
    IF r.ok /\ r.next = Len(text) + 1 THEN [ok |-> TRUE, val |-> r.val]
    ELSE [ok |-> FALSE, val |-> JNum(0)]

(***************************************************************************)
(* ZoneDetectionService                                                    *)
(***************************************************************************)
DigitChars == <<"0", "1", "2", "3", "4", "5", "6", "7", "8", "9">>
IsDigit(c) == \E d \in 1..Len(DigitChars) : DigitChars[d] = c
DigitOf(c) == (CHOOSE d \in 1..Len(DigitChars) : DigitChars[d] = c) - 1

\* float(s) of a string of decimal digits
RECURSIVE StrFloat(_)
StrFloat(chars) ==
    IF Len(chars) = 1 THEN DigitOf(chars[1])
    ELSE 10 * StrFloat(SubSeq(chars, 1, Len(chars) - 1)) + DigitOf(chars[Len(chars)])

\* float(e) raises: TypeError for a list or None, ValueError for a string
\* that is not a number
FloatRaises(e) ==
    \/ e.t \in {"arr", "null"}
    \/ e.t = "str" /\ (e.v = <<>> \/ \E k \in 1..Len(e.v) : ~IsDigit(e.v[k]))

\* float(e): a number as it is, True and False as 1 and 0, a string parsed
FloatOf(e) ==
    IF e.t = "num" THEN e.v
    ELSE IF e.t = "bool" THEN (IF e.v THEN 1 ELSE 0)
    ELSE StrFloat(e.v)

\* what iterating over the value yields: the items of a list, the characters
\* of a string
Iterable(e) == e.t \in {"arr", "str"}
Items(e) == IF e.t = "arr" THEN e.v ELSE [k \in 1..Len(e.v) |-> JStr(<<e.v[k]>>)]

\* "for x, y in coords" with float(x), float(y): TRUE when it raises
UnpackRaises(coords) ==
    \/ ~Iterable(coords)
    \/ \E i \in 1..Len(Items(coords)) :
          LET item == Items(coords)[i] IN
          \/ ~Iterable(item)
          \/ Len(Items(item)) # 2
          \/ FloatRaises(Items(item)[1])
          \/ FloatRaises(Items(item)[2])

parse_zone_coordinates(coordinates_json) ==
    LET j == json_loads(coordinates_json) IN
    IF ~j.ok THEN <<>>
    ELSE IF UnpackRaises(j.val) THEN <<>>
    ELSE [i \in 1..Len(Items(j.val)) |->
             <<FloatOf(Items(Items(j.val)[i])[1]), FloatOf(Items(Items(j.val)[i])[2])>>]

\* (mutant) the top left corner instead of the centre
get_bbox_corner(bbox) == <<FAdd(bbox.x1, bbox.x1), FAdd(bbox.y1, bbox.y1)>>

\* centre of the bounding box, in half pixels
get_bbox_center(bbox) == <<FAdd(bbox.x1, bbox.x2), FAdd(bbox.y1, bbox.y2)>>

\* the point p (half pixels) lies on the closed segment a-b (pixels)
OnSegment(p, a, b) ==
    LET ax == 2 * a[1]  ay == 2 * a[2]  bx == 2 * b[1]  by == 2 * b[2] IN
    /\ (bx - ax) * (p[2] - ay) = (by - ay) * (p[1] - ax)
    /\ (IF ax <= bx THEN ax <= p[1] /\ p[1] <= bx ELSE bx <= p[1] /\ p[1] <= ax)
    /\ (IF ay <= by THEN ay <= p[2] /\ p[2] <= by ELSE by <= p[2] /\ p[2] <= ay)

\* the ray from p towards +x crosses the edge a-b
RayCrosses(p, a, b) ==
    LET ax == 2 * a[1]  ay == 2 * a[2]  bx == 2 * b[1]  by == 2 * b[2]
        d == by - ay
    IN  /\ (ay > p[2]) # (by > p[2])
        /\ IF d > 0 THEN (p[1] - ax) * d < (p[2] - ay) * (bx - ax)
                    ELSE (p[1] - ax) * d > (p[2] - ay) * (bx - ax)

\* shapely: Polygon(polygon_coords).contains(Point(p)): p in the interior
PolygonContains(poly, p) ==
    LET n == Len(poly)
        nxt(i) == IF i = n THEN 1 ELSE i + 1
    IN  /\ \A i \in 1..n : ~OnSegment(p, poly[i], poly[nxt(i)])
        /\ Cardinality({i \in 1..n : RayCrosses(p, poly[i], poly[nxt(i)])}) % 2 = 1

is_point_in_polygon(point, polygon_coords) ==
    IF Len(polygon_coords) < 3 THEN FALSE
    ELSE IF point[1] = NaN \/ point[2] = NaN THEN FALSE
    ELSE PolygonContains(polygon_coords, point)

ZoneAlert(zone, detection) ==
    [zone_id |-> zone.id, zone_name |-> zone.name,
     alert_type |-> zone.alert_type, confidence |-> detection.confidence]

\* (mutant) the loop over the detections left at the first alert of the zone
RECURSIVE CheckDetectionsOnce(_, _, _)
CheckDetectionsOnce(zone, polygon_coords, detections) ==
    IF detections = <<>> THEN <<>>
    ELSE IF is_point_in_polygon(get_bbox_center(Head(detections).bbox), polygon_coords)
         THEN <<ZoneAlert(zone, Head(detections))>>
         ELSE CheckDetectionsOnce(zone, polygon_coords, Tail(detections))

RECURSIVE CheckDetections(_, _, _)
CheckDetections(zone, polygon_coords, detections) ==
    IF detections = <<>> THEN <<>>
    ELSE (IF is_point_in_polygon(get_bbox_center(Head(detections).bbox), polygon_coords)
          THEN <<ZoneAlert(zone, Head(detections))>> ELSE <<>>)
         \o CheckDetections(zone, polygon_coords, Tail(detections))

\* (mutant) inactive zones are not skipped
RECURSIVE check_zones_inactive(_, _)
check_zones_inactive(detections, zones) ==
    IF zones = <<>> THEN <<>>
    ELSE LET zone == Head(zones)
             polygon_coords == parse_zone_coordinates(zone.coordinates_json)
         IN  (IF polygon_coords = <<>> THEN <<>>
              ELSE CheckDetections(zone, polygon_coords, detections))
             \o check_zones_inactive(detections, Tail(zones))

\* (mutant) a zone with invalid coordinates ends the loop over the zones
RECURSIVE check_zones_return(_, _)
check_zones_return(detections, zones) ==
    IF zones = <<>> THEN <<>>
    ELSE LET zone == Head(zones)
             polygon_coords == parse_zone_coordinates(zone.coordinates_json)
         IN  IF ~zone.active THEN check_zones_return(detections, Tail(zones))
             ELSE IF polygon_coords = <<>> THEN <<>>
             ELSE CheckDetections(zone, polygon_coords, detections)
                      \o check_zones_return(detections, Tail(zones))

\* (mutant) the alerts of a later zone come first
RECURSIVE check_zones_reversed(_, _)
check_zones_reversed(detections, zones) ==
    IF zones = <<>> THEN <<>>
    ELSE LET zone == Head(zones)
             polygon_coords == parse_zone_coordinates(zone.coordinates_json)
         IN  check_zones_reversed(detections, Tail(zones))
             \o (IF ~zone.active THEN <<>>
                 ELSE IF polygon_coords = <<>> THEN <<>>
                 ELSE CheckDetections(zone, polygon_coords, detections))

RECURSIVE check_zones(_, _)
check_zones(detections, zones) ==
    IF zones = <<>> THEN <<>>
    ELSE LET zone == Head(zones)
             polygon_coords == parse_zone_coordinates(zone.coordinates_json)
         IN  (IF ~zone.active THEN <<>>
              ELSE IF polygon_coords = <<>> THEN <<>>
              ELSE CheckDetections(zone, polygon_coords, detections))
             \o check_zones(detections, Tail(zones))


(***************************************************************************)
(* detection-demo: CompleteZoneDemo.point_in_polygon, ray casting on pixel *)
(* coordinates.  The result is [raised, inside].                           *)
(***************************************************************************)
\* (mutant) an edge is met when y >= min(p1y, p2y)
RECURSIVE RayLoopClosed(_, _, _, _, _)
RayLoopClosed(point, polygon, i, p1, inside) ==
    IF i > Len(polygon) THEN inside
    ELSE LET x == point[1]  y == point[2]
             p2 == polygon[(i % Len(polygon)) + 1]
             p1x == p1[1]  p1y == p1[2]  p2x == p2[1]  p2y == p2[2]
             min_y == IF p1y <= p2y THEN p1y ELSE p2y
             max_y == IF p1y >= p2y THEN p1y ELSE p2y
             max_x == IF p1x >= p2x THEN p1x ELSE p2x
             left == IF p2y > p1y THEN (x - p1x) * (p2y - p1y) <= (y - p1y) * (p2x - p1x)
                                  ELSE (x - p1x) * (p2y - p1y) >= (y - p1y) * (p2x - p1x)
             toggles == /\ y >= min_y
                        /\ y <= max_y
                        /\ x <= max_x
                        /\ p1y # p2y
                        /\ (p1x = p2x \/ left)
         IN  RayLoopClosed(point, polygon, i + 1, p2, IF toggles THEN ~inside ELSE inside)

\* "for i in range(1, n + 1)": the edge p1-p2 toggles inside when the ray
\* from the point meets it; x <= xinters with xinters =
\* (y - p1y) * (p2x - p1x) / (p2y - p1y) + p1x is decided on integers.
\* When p1y = p2y the two tests on y cannot both hold.
RECURSIVE RayLoop(_, _, _, _, _)
RayLoop(point, polygon, i, p1, inside) ==
    IF i > Len(polygon) THEN inside
    ELSE LET x == point[1]  y == point[2]
             p2 == polygon[(i % Len(polygon)) + 1]
             p1x == p1[1]  p1y == p1[2]  p2x == p2[1]  p2y == p2[2]
             min_y == IF p1y <= p2y THEN p1y ELSE p2y
             max_y == IF p1y >= p2y THEN p1y ELSE p2y
             max_x == IF p1x >= p2x THEN p1x ELSE p2x
             left == IF p2y > p1y THEN (x - p1x) * (p2y - p1y) <= (y - p1y) * (p2x - p1x)
                                  ELSE (x - p1x) * (p2y - p1y) >= (y - p1y) * (p2x - p1x)
             toggles == /\ y > min_y
                        /\ y <= max_y
                        /\ x <= max_x
                        /\ (p1x = p2x \/ left)
         IN  RayLoop(point, polygon, i + 1, p2, IF toggles THEN ~inside ELSE inside)

\* (mutant) no test of the number of points: polygon[0] raises IndexError
point_in_polygon_unguarded(point, polygon) ==
    IF polygon = <<>> THEN [raised |-> TRUE, inside |-> FALSE]
    ELSE [raised |-> FALSE, inside |-> RayLoop(point, polygon, 1, polygon[1], FALSE)]

\* (mutant) the closed test on y
point_in_polygon_closed(point, polygon) ==
    IF Len(polygon) < 3 THEN [raised |-> FALSE, inside |-> FALSE]
    ELSE [raised |-> FALSE, inside |-> RayLoopClosed(point, polygon, 1, polygon[1], FALSE)]

point_in_polygon(point, polygon) ==
    IF Len(polygon) < 3 THEN [raised |-> FALSE, inside |-> FALSE]
    ELSE [raised |-> FALSE, inside |-> RayLoop(point, polygon, 1, polygon[1], FALSE)]

(***************************************************************************)
(* YOLODetectionService                                                    *)
(***************************************************************************)
\* pydantic: Detection.confidence has ge=0.0, le=1.0
DetectionValid(confidence) == FGe(confidence, 0) /\ FLe(confidence, 100)

Detection(confidence, xyxy) ==
    [class_name |-> "person", confidence |-> confidence,
     bbox |-> [x1 |-> xyxy[1], y1 |-> xyxy[2], x2 |-> xyxy[3], y2 |-> xyxy[4]]]

\* (mutant) the confidence filter drops a confidence equal to the threshold
RECURSIVE ProcessBoxesStrict(_, _)
ProcessBoxesStrict(boxes, detections) ==
    IF boxes = <<>> THEN [raised |-> FALSE, detections |-> detections]
    ELSE LET box == Head(boxes)
             width == FSub(box.xyxy[3], box.xyxy[1])
             height == FSub(box.xyxy[4], box.xyxy[2])
         IN  IF box.cls # PersonClassId THEN ProcessBoxesStrict(Tail(boxes), detections)
             ELSE IF FLe(box.conf, ConfThreshold)
                  THEN ProcessBoxesStrict(Tail(boxes), detections)
             ELSE IF FLt(width, MinWidth) \/ FLt(height, MinHeight)
                  THEN ProcessBoxesStrict(Tail(boxes), detections)
             ELSE IF ~DetectionValid(box.conf) THEN [raised |-> TRUE, detections |-> <<>>]
             ELSE ProcessBoxesStrict(Tail(boxes),
                                     Append(detections, Detection(box.conf, box.xyxy)))

\* (mutant) no filter on the size of the box
RECURSIVE ProcessBoxesAnySize(_, _)
ProcessBoxesAnySize(boxes, detections) ==
    IF boxes = <<>> THEN [raised |-> FALSE, detections |-> detections]
    ELSE LET box == Head(boxes) IN
         IF box.cls # PersonClassId THEN ProcessBoxesAnySize(Tail(boxes), detections)
         ELSE IF FLt(box.conf, ConfThreshold)
              THEN ProcessBoxesAnySize(Tail(boxes), detections)
         ELSE IF ~DetectionValid(box.conf) THEN [raised |-> TRUE, detections |-> <<>>]
         ELSE ProcessBoxesAnySize(Tail(boxes),
                                  Append(detections, Detection(box.conf, box.xyxy)))

\* the loop over result.boxes; raised = a ValidationError left the loop
RECURSIVE ProcessBoxes(_, _)
ProcessBoxes(boxes, detections) ==
    IF boxes = <<>> THEN [raised |-> FALSE, detections |-> detections]
    ELSE LET box == Head(boxes)
             confidence == box.conf
             width == FSub(box.xyxy[3], box.xyxy[1])
             height == FSub(box.xyxy[4], box.xyxy[2])
         IN  IF box.cls # PersonClassId THEN ProcessBoxes(Tail(boxes), detections)
             ELSE IF FLt(confidence, ConfThreshold) THEN ProcessBoxes(Tail(boxes), detections)
             ELSE IF FLt(width, MinWidth) \/ FLt(height, MinHeight)
                  THEN ProcessBoxes(Tail(boxes), detections)
             ELSE IF ~DetectionValid(confidence) THEN [raised |-> TRUE, detections |-> <<>>]
             ELSE ProcessBoxes(Tail(boxes),
                               Append(detections, Detection(confidence, box.xyxy)))

\* loaded: self.model_loaded; inference: [raises, boxes], what self.model(image) does
detect_objects(loaded, inference) ==
    IF ~loaded THEN <<>>
    ELSE IF inference.raises THEN <<>>
    ELSE LET r == ProcessBoxes(inference.boxes, <<>>) IN
         IF r.raised THEN <<>> ELSE r.detections


(***************************************************************************)
(* The store: users, cameras, zones, alerts; the clock; the record of the  *)
(* last call with its answer; the detect requests in flight                *)
(***************************************************************************)
VARIABLES model_loaded, cameras, zones, alerts, now, last, flight, demo
vars == <<model_loaded, cameras, zones, alerts, now, last, flight, demo>>

CameraIds == {"camA", "camB"}
None == <<>>

Users ==
    << [id |-> 1, api_key |-> "k1", plan |-> "free", cameras_allowed |-> 1, status |-> "active"],
       [id |-> 2, api_key |-> "k2", plan |-> "free", cameras_allowed |-> 2, status |-> "active"],
       [id |-> 3, api_key |-> "k3", plan |-> "free", cameras_allowed |-> 2, status |-> "suspended"] >>

NoCamera == [exists |-> FALSE, user_id |-> 0, last_frame_at |-> -1]

\* the autoincremented integer primary key of a new row
NextId(rows) ==
    IF rows = <<>> THEN 1
    ELSE 1 + CHOOSE m \in {rows[i].id : i \in 1..Len(rows)} :
                 \A i \in 1..Len(rows) : rows[i].id <= m

get_user_by_api_key(api_key) ==
    IF \E i \in 1..Len(Users) : Users[i].api_key = api_key
    THEN CHOOSE i \in 1..Len(Users) : Users[i].api_key = api_key
    ELSE 0

\* (mutant) the status of the user is not looked at
verify_api_key_any_status(api_key) == get_user_by_api_key(api_key)

verify_api_key(api_key) ==
    LET user == get_user_by_api_key(api_key) IN
    IF user = 0 THEN 0
    ELSE IF Users[user].status # "active" THEN 0
    ELSE user

Lower(word) == IF word \in {"Bearer", "BEARER"} THEN "bearer" ELSE word

\* authorization: the header split at white space (None when absent);
\* the result is the user's id, or 0 when the request is answered 401
get_current_user(authorization) ==
    IF authorization = None THEN 0
    ELSE IF Len(authorization) # 2 \/ Lower(authorization[1]) # "bearer" THEN 0
    ELSE verify_api_key(authorization[2])

get_camera(cams, camera_id) == cams[camera_id]

get_user_cameras(cams, user_id) ==
    {c \in CameraIds : cams[c].exists /\ cams[c].user_id = user_id}

create_camera(cams, camera_id, user_id) ==
    [cams EXCEPT ![camera_id] = [exists |-> TRUE, user_id |-> user_id, last_frame_at |-> -1]]

update_camera_last_frame(cams, camera_id, t) ==
    IF cams[camera_id].exists THEN [cams EXCEPT ![camera_id].last_frame_at = t] ELSE cams

\* (mutant) the limit is reached only above cameras_allowed
check_camera_limit_above(cams, user, camera_id, lookup_raises) ==
    LET camera_ids == {c \in CameraIds : cams[c].exists /\ cams[c].user_id = user} IN
    IF lookup_raises THEN FALSE
    ELSE IF camera_id \in camera_ids THEN TRUE
    ELSE IF Cardinality(camera_ids) > Users[user].cameras_allowed THEN FALSE
    ELSE TRUE

\* lookup_raises: get_user_cameras raises; the result is "allowed"
check_camera_limit(cams, user, camera_id, lookup_raises) ==
    LET camera_ids == get_user_cameras(cams, user) IN
    IF lookup_raises THEN FALSE
    ELSE IF camera_id \in camera_ids THEN TRUE
    ELSE IF Cardinality(camera_ids) >= Users[user].cameras_allowed THEN FALSE
    ELSE TRUE

get_zone(zs, zone_id) ==
    IF \E i \in 1..Len(zs) : zs[i].id = zone_id
    THEN CHOOSE i \in 1..Len(zs) : zs[i].id = zone_id
    ELSE 0

get_camera_zones(zs, camera_id, active_only) ==
    SelectSeq(zs, LAMBDA z : z.camera_id = camera_id /\ (active_only => z.active = TRUE))

\* crud.create_zone: the row built from the request
ZoneRow(id, camera_id, body) ==
    [id |-> id, camera_id |-> camera_id, name |-> body.name,
     coordinates_json |-> json_dumps(body.coordinates),
     alert_type |-> body.alert_type, active |-> body.active,
     active_hours |-> body.active_hours]

crud_create_zone(zs, camera_id, body) == Append(zs, ZoneRow(NextId(zs), camera_id, body))

\* (mutant) the alerts of the zone are left in place
crud_keep_zone_alerts(als, zone_id) == als

crud_delete_zone_alerts(als, zone_id) == SelectSeq(als, LAMBDA a : a.zone_id # zone_id)

crud_delete_zone(zs, zone_id) == SelectSeq(zs, LAMBDA z : z.id # zone_id)

\* (mutant) the alert takes the place of the stored alerts of its zone
create_alert_replace(als, camera_id, zone_id, detection_type, confidence, t) ==
    Append(SelectSeq(als, LAMBDA a : a.zone_id # zone_id),
           [id |-> NextId(als), camera_id |-> camera_id, zone_id |-> zone_id,
            detection_type |-> detection_type, confidence |-> confidence,
            bbox_json |-> None, image_url |-> None, timestamp |-> t])

create_alert(als, camera_id, zone_id, detection_type, confidence, t) ==
    Append(als, [id |-> NextId(als), camera_id |-> camera_id, zone_id |-> zone_id,
                 detection_type |-> detection_type, confidence |-> confidence,
                 bbox_json |-> None, image_url |-> None, timestamp |-> t])

\* crud.get_alerts with the default page (limit 50, offset 0), which holds
\* every row of the tables of this model: the rows are given as a set, the
\* order of rows of equal timestamp being the database's choice.  A filter
\* that is not set is "" (camera_id, alert_type) or {} (the dates).
crud_get_alerts(als, camera_id, start_date, end_date, alert_type) ==
    {als[k] : k \in {k \in 1..Len(als) :
                        /\ camera_id # "" => als[k].camera_id = camera_id
                        /\ \A d \in start_date : als[k].timestamp >= d
                        /\ \A d \in end_date : als[k].timestamp <= d}}

\* (mutant) the loop is left after the first alert
SaveAlertsFirst(als, zs, camera_id, new, t) ==
    IF new = <<>> THEN als
    ELSE IF \E i \in 1..Len(zs) : zs[i].id = Head(new).zone_id
         THEN create_alert(als, camera_id, Head(new).zone_id, "person", Head(new).confidence, t)
         ELSE als

\* detect.py: "for alert in alerts", with the lookup of the alert's zone
RECURSIVE SaveAlerts(_, _, _, _, _)
SaveAlerts(als, zs, camera_id, new, t) ==
    IF new = <<>> THEN als
    ELSE LET alert == Head(new)
             found == \E i \in 1..Len(zs) : zs[i].id = alert.zone_id
         IN  SaveAlerts(IF found
                        THEN create_alert(als, camera_id, alert.zone_id, "person",
                                          alert.confidence, t)
                        ELSE als,
                        zs, camera_id, Tail(new), t)


(***************************************************************************)
(* Inputs of the requests                                                  *)
(***************************************************************************)
SeqsUpTo(S, n) == UNION {[1..k -> S] : k \in 0..n}

SqA == <<<<0, 0>>, <<40, 0>>, <<40, 40>>, <<0, 40>>>>
SqB == <<<<5, 5>>, <<60, 5>>, <<60, 80>>, <<5, 80>>>>

Body(name, coordinates, alert_type, active, active_hours) ==
    [name |-> name, coordinates |-> coordinates, alert_type |-> alert_type,
     active |-> active, active_hours |-> active_hours]

NoBody == Body("", <<>>, "", FALSE, None)

BodyA == Body("A", SqA, "intrusion", TRUE, None)
BodyB == Body("B", SqB, "loitering", TRUE, None)
BodyOff == Body("A", SqA, "intrusion", FALSE, None)
BodyHours == Body("N", SqA, "intrusion", TRUE, <<1, 1>>)
BodyOdd == Body("M", <<<<0, 0>>, <<40, 0, 7>>, <<40, 40>>>>, "intrusion", TRUE, None)
BodyTwo == Body("T", <<<<0, 0>>, <<40, 0>>>>, "intrusion", TRUE, None)
BodyEmpty == Body("E", <<>>, "intrusion", TRUE, None)

\* request bodies of POST /cameras/{camera_id}/zones
ZoneBodies == {BodyA, BodyB, BodyOff, BodyHours, BodyOdd, BodyTwo, BodyEmpty}

\* Authorization headers, split at white space
Headers == {None, <<"Bearer", "k1">>, <<"bearer", "k2">>, <<"Bearer", "k3">>}

Box(cls, conf, xyxy) == [cls |-> cls, conf |-> conf, xyxy |-> xyxy]

BoxIn == Box(0, 90, <<10, 10, 30, 50>>)
BoxHalf == Box(0, 30, <<10, 10, 31, 51>>)
BoxInB == Box(0, 80, <<30, 30, 50, 90>>)
BoxLow == Box(0, 29, <<10, 10, 30, 50>>)
BoxNarrow == Box(0, 90, <<10, 10, 29, 50>>)
BoxShort == Box(0, 90, <<10, 10, 30, 49>>)
BoxCar == Box(2, 90, <<10, 10, 30, 50>>)
BoxBadConf == Box(0, 150, <<10, 10, 30, 50>>)
BoxNaN == Box(0, 90, <<NaN, 10, 30, 50>>)

\* what the model may report for one object
BoxSet == {BoxIn, BoxHalf, BoxInB, BoxLow, BoxNarrow, BoxShort, BoxCar, BoxBadConf, BoxNaN}

Inferences ==
    {[raises |-> TRUE, boxes |-> <<>>]}
        \cup {[raises |-> FALSE, boxes |-> b] : b \in SeqsUpTo(BoxSet, MaxBoxes)}

\* detections and zone rows handed to check_zones when it is called directly
UnitDetections ==
    { Detection(90, <<10, 10, 30, 50>>), Detection(30, <<10, 10, 31, 51>>),
      Detection(80, <<30, 30, 50, 90>>), Detection(90, <<NaN, 10, 30, 50>>) }

UnitZoneRows(id) ==
    {ZoneRow(id, "camA", b) : b \in {BodyA, BodyB, BodyOff, BodyOdd, BodyTwo}}
        \cup {[ZoneRow(id, "camA", Body("X", SqA, "intrusion", TRUE, None))
                  EXCEPT !.coordinates_json = <<Tok("w", 0)>>]}

UnitZoneSeqs ==
    {zs \in SeqsUpTo(UNION {UnitZoneRows(i) : i \in 1..MaxZones}, MaxZones) :
        \A i \in 1..Len(zs) : zs[i].id = i}

(***************************************************************************)
(* The record of the last call and its answer                              *)
(***************************************************************************)
Idle ==
    [op |-> "none", status |-> 0, authorization |-> <<>>, user |-> 0,
     camera_id |-> "", zone_id |-> 0,
     body |-> NoBody, inferred |-> FALSE, raw |-> <<>>, detections |-> <<>>,
     zones |-> <<>>, alerts |-> <<>>, time |-> 0, rows |-> {},
     filter |-> "", total |-> 0, text |-> <<>>,
     point |-> <<0, 0>>, polygon |-> <<>>, result |-> FALSE, failed |-> FALSE]

Answer(op, status, authorization, user, camera_id) ==
    [Idle EXCEPT !.op = op, !.status = status, !.authorization = authorization,
                 !.user = user, !.camera_id = camera_id]

\* a request that has not arrived
NoRequest ==
    [pc |-> "none", user |-> 0, camera_id |-> "", zone_id |-> 0, creates |-> FALSE,
     time |-> 0,
     detections |-> <<>>, zones |-> <<>>, alerts |-> <<>>, rows |-> <<>>, status |-> 0]

\* no request is in flight
NoFlights == [r \in 1..MaxRequests |-> NoRequest]

\* the demo before its window is opened: no zone, nothing pending
NoDemo ==
    [zones |-> <<>>, current_zone |-> <<>>, drawing_mode |-> FALSE, paused |-> FALSE,
     mouse |-> <<0, 0>>]

\* whether the database enforces the foreign keys of the tables (for SQLite a
\* setting of each connection): the choice of the engine that get_db uses
foreign_keys == BOOLEAN

\* get_db: the session is rolled back when the handler raises
Rollback(answer) ==
    /\ last' = answer
    /\ UNCHANGED <<model_loaded, flight, demo, cameras, zones, alerts, now>>

Init ==
    /\ model_loaded \in BOOLEAN
    /\ cameras = [c \in CameraIds |-> NoCamera]
    /\ zones = <<>>
    /\ alerts = <<>>
    /\ now = 0
    /\ last = Idle
    /\ flight = NoFlights
    /\ demo = NoDemo

(***************************************************************************)
(* POST /detect                                                            *)
(***************************************************************************)
\* (mutant) a zone that raised an alert is switched off
DetectFrameDisarms(authorization, user, camera_id, inference, cap) ==
    LET cams1 == IF get_camera(cameras, camera_id).exists THEN cameras
                 ELSE create_camera(cameras, camera_id, user)
        cams2 == update_camera_last_frame(cams1, camera_id, now)
        detections == detect_objects(model_loaded, inference)
        zs == get_camera_zones(zones, camera_id, TRUE)
        found == check_zones(detections, zs)
        stored == SaveAlerts(alerts, zs, camera_id, found, now)
        inferred == model_loaded /\ ~inference.raises
    IN  /\ Len(stored) <= cap
        /\ cameras' = cams2
        /\ alerts' = stored
        /\ zones' = [i \in 1..Len(zones) |->
                        IF \E k \in 1..Len(found) : found[k].zone_id = zones[i].id
                        THEN [zones[i] EXCEPT !.active = FALSE] ELSE zones[i]]
        /\ last' = [Answer("detect", 200, authorization, user, camera_id) EXCEPT
                       !.inferred = inferred,
                       !.raw = IF inferred THEN inference.boxes ELSE <<>>,
                       !.detections = detections, !.zones = zs,
                       !.alerts = found, !.time = now]
        /\ UNCHANGED <<model_loaded, flight, demo, now>>

\* the handler once the camera limit allows the request; cap bounds the
\* number of stored alerts
DetectFrame(authorization, user, camera_id, inference, cap) ==
    LET cams1 == IF get_camera(cameras, camera_id).exists THEN cameras
                 ELSE create_camera(cameras, camera_id, user)
        cams2 == update_camera_last_frame(cams1, camera_id, now)
        detections == detect_objects(model_loaded, inference)
        zs == get_camera_zones(zones, camera_id, TRUE)
        found == check_zones(detections, zs)
        stored == SaveAlerts(alerts, zs, camera_id, found, now)
        inferred == model_loaded /\ ~inference.raises
    IN  /\ Len(stored) <= cap
        /\ cameras' = cams2
        /\ alerts' = stored
        /\ last' = [Answer("detect", 200, authorization, user, camera_id) EXCEPT
                       !.inferred = inferred,
                       !.raw = IF inferred THEN inference.boxes ELSE <<>>,
                       !.detections = detections, !.zones = zs,
                       !.alerts = found, !.time = now]
        /\ UNCHANGED <<model_loaded, flight, demo, zones, now>>

\* the handler, for requests drawn from the given headers, cameras and
\* inferences
detect_handler(headers, camera_ids, inferences, cap) ==
    \E authorization \in headers, camera_id \in camera_ids, lookup_raises \in BOOLEAN :
        LET user == get_current_user(authorization) IN
        IF user = 0 THEN Rollback(Answer("detect", 401, authorization, 0, camera_id))
        ELSE IF ~check_camera_limit(cameras, user, camera_id, lookup_raises)
             THEN Rollback(Answer("detect", 403, authorization, user, camera_id))
        ELSE \/ Rollback(Answer("detect", 400, authorization, user, camera_id))
             \/ \E inference \in inferences :
                    DetectFrame(authorization, user, camera_id, inference, cap)

(***************************************************************************)
(* /cameras/{camera_id}/zones                                              *)
(***************************************************************************)
\* (mutant) no min_length on the coordinates
ZoneCreateAnyLength(body) == Len(body.coordinates) >= 0

\* pydantic: ZoneCreate.coordinates has min_length=3
ZoneCreateValid(body) == Len(body.coordinates) >= 3

create_zone_handler(headers, camera_ids, bodies) ==
    \E authorization \in headers, camera_id \in camera_ids :
        LET user == get_current_user(authorization)
            camera == get_camera(cameras, camera_id)
        IN  IF user = 0 THEN Rollback(Answer("create_zone", 401, authorization, 0, camera_id))
            ELSE \E body \in bodies :
                LET answer(status) == [Answer("create_zone", status, authorization, user, camera_id)
                                          EXCEPT !.body = body]
                IN  IF ~ZoneCreateValid(body) THEN Rollback(answer(422))
                    ELSE IF camera.exists /\ camera.user_id # user
                         THEN Rollback(answer(403))
                    ELSE IF Len(body.coordinates) < 3 THEN Rollback(answer(400))
                    ELSE /\ Len(zones) < MaxZones
                         /\ cameras' = IF camera.exists THEN cameras
                                       ELSE create_camera(cameras, camera_id, user)
                         /\ zones' = crud_create_zone(zones, camera_id, body)
                         /\ last' = [answer(201) EXCEPT !.zone_id = NextId(zones)]
                         /\ UNCHANGED <<model_loaded, flight, demo, alerts, now>>

get_zones_handler(headers, camera_ids) ==
    \E authorization \in headers, camera_id \in camera_ids :
        LET user == get_current_user(authorization)
            camera == get_camera(cameras, camera_id)
        IN  IF user = 0 THEN Rollback(Answer("get_zones", 401, authorization, 0, camera_id))
            ELSE IF camera.exists /\ camera.user_id # user
                 THEN Rollback(Answer("get_zones", 403, authorization, user, camera_id))
            ELSE /\ cameras' = IF camera.exists THEN cameras
                               ELSE create_camera(cameras, camera_id, user)
                 /\ last' = [Answer("get_zones", 200, authorization, user, camera_id) EXCEPT
                                !.zones = get_camera_zones(zones, camera_id, FALSE)]
                 /\ UNCHANGED <<model_loaded, flight, demo, zones, alerts, now>>

\* (mutant) the camera of the path is not compared with the zone's camera
delete_zone_handler_any_path(headers, camera_ids) ==
    \E authorization \in headers, camera_id \in camera_ids :
        LET user == get_current_user(authorization) IN
        IF user = 0 THEN Rollback(Answer("delete_zone", 401, authorization, 0, camera_id))
        ELSE \E zone_id \in 1..MaxZones :
            LET zone == get_zone(zones, zone_id)
                answer(status) == [Answer("delete_zone", status, authorization, user, camera_id)
                                      EXCEPT !.zone_id = zone_id]
            IN  IF zone = 0 THEN Rollback(answer(404))
                ELSE IF \/ ~get_camera(cameras, zones[zone].camera_id).exists
                        \/ get_camera(cameras, zones[zone].camera_id).user_id # user
                     THEN Rollback(answer(403))
                ELSE /\ alerts' = crud_delete_zone_alerts(alerts, zone_id)
                     /\ zones' = crud_delete_zone(zones, zone_id)
                     /\ last' = answer(204)
                     /\ UNCHANGED <<model_loaded, flight, demo, cameras, now>>

delete_zone_handler(headers, camera_ids) ==
    \E authorization \in headers, camera_id \in camera_ids :
        LET user == get_current_user(authorization) IN
        IF user = 0 THEN Rollback(Answer("delete_zone", 401, authorization, 0, camera_id))
        ELSE \E zone_id \in 1..MaxZones :
            LET zone == get_zone(zones, zone_id)
                answer(status) == [Answer("delete_zone", status, authorization, user, camera_id)
                                      EXCEPT !.zone_id = zone_id]
            IN  IF zone = 0 THEN Rollback(answer(404))
                ELSE IF zones[zone].camera_id # camera_id THEN Rollback(answer(400))
                ELSE IF \/ ~get_camera(cameras, zones[zone].camera_id).exists
                        \/ get_camera(cameras, zones[zone].camera_id).user_id # user
                     THEN Rollback(answer(403))
                ELSE /\ alerts' = crud_delete_zone_alerts(alerts, zone_id)
                     /\ zones' = crud_delete_zone(zones, zone_id)
                     /\ last' = answer(204)
                     /\ UNCHANGED <<model_loaded, flight, demo, cameras, now>>

(***************************************************************************)
(* GET /alerts                                                             *)
(***************************************************************************)
get_alerts_handler(headers, camera_filters, type_filters) ==
    \E authorization \in headers, camera_id \in camera_filters, alert_type \in type_filters :
        LET user == get_current_user(authorization)
            answer(status) == [Answer("get_alerts", status, authorization, user, camera_id)
                                  EXCEPT !.filter = alert_type]
            found == crud_get_alerts(alerts, camera_id, {}, {}, alert_type)
            camera_ids == get_user_cameras(cameras, user)
        IN  IF user = 0 THEN Rollback(Answer("get_alerts", 401, authorization, 0, camera_id))
            ELSE IF camera_id # "" /\ ~get_camera(cameras, camera_id).exists
                 THEN Rollback(answer(404))
            ELSE IF camera_id # "" /\ get_camera(cameras, camera_id).user_id # user
                 THEN Rollback(answer(403))
            ELSE /\ last' = LET page == IF camera_id # "" THEN found
                                        ELSE {a \in found : a.camera_id \in camera_ids}
                            IN  [answer(200) EXCEPT !.rows = page,
                                                    !.total = Cardinality(page)]
                 /\ UNCHANGED <<model_loaded, flight, demo, cameras, zones, alerts, now>>

\* datetime.utcnow() advances
Tick ==
    /\ now < MaxTime
    /\ now' = now + 1
    /\ UNCHANGED <<model_loaded, flight, demo, cameras, zones, alerts, last>>

(***************************************************************************)
(* Spec: one client and its camera; the requests are served one at a time. *)
(* A frame shows nobody or one person, and at most MaxZones zones and      *)
(* MaxAlerts alerts are stored.                                            *)
(***************************************************************************)
StoreHeaders == {None, <<"bearer", "k2">>}
StoreCameras == {"camA"}
StoreBodies == {BodyA, BodyB, BodyTwo, BodyEmpty}
StoreInferences ==
    {[raises |-> FALSE, boxes |-> b] : b \in {<<>>, <<BoxIn>>}}

Detect == detect_handler(StoreHeaders, StoreCameras, StoreInferences, MaxAlerts)
CreateZone == create_zone_handler(StoreHeaders, StoreCameras, StoreBodies)
GetZones == get_zones_handler(StoreHeaders, StoreCameras)
DeleteZone == delete_zone_handler(StoreHeaders, StoreCameras)
GetAlerts == get_alerts_handler(StoreHeaders, {"", "camA"}, {"", "loitering"})

Next ==
    \/ Detect
    \/ CreateZone
    \/ GetZones
    \/ DeleteZone
    \/ GetAlerts

Spec == Init /\ [][Next]_vars

(***************************************************************************)
(* SpecCameras: one client with two cameras; every frame shows one person  *)
(* and the requests are served one at a time.                              *)
(***************************************************************************)
CamerasHeaders == {<<"bearer", "k2">>}
CamerasBodies == {BodyA}
CamerasInferences == {[raises |-> FALSE, boxes |-> <<BoxIn>>]}

DetectAny == detect_handler(CamerasHeaders, CameraIds, CamerasInferences, MaxAlerts)
CreateZoneAny == create_zone_handler(CamerasHeaders, CameraIds, CamerasBodies)
DeleteZoneAny == delete_zone_handler(CamerasHeaders, CameraIds)

NextCameras ==
    \/ DetectAny
    \/ CreateZoneAny
    \/ DeleteZoneAny

\* the server has loaded its model
InitCameras == Init /\ model_loaded

SpecCameras == InitCameras /\ [][NextCameras]_vars

(***************************************************************************)
(* SpecFrame: one call on a server whose store holds some zones of camA,   *)
(* created by user 2: either one frame posted to /detect, with anything    *)
(* the model may report, or one direct call of a service (as the unit      *)
(* tests do) on a process whose store is empty.                            *)
(***************************************************************************)
FrameBodies == {BodyA, BodyOff, BodyHours}
FrameBoxes == {BoxIn, BoxLow, BoxNarrow, BoxShort, BoxCar, BoxBadConf, BoxNaN}
FrameInferences ==
    {[raises |-> TRUE, boxes |-> <<>>]}
        \cup {[raises |-> FALSE, boxes |-> b] : b \in SeqsUpTo(FrameBoxes, MaxBoxes)}

\* the zone tables that k requests POST /cameras/camA/zones leave
RECURSIVE ZoneTables(_)
ZoneTables(k) ==
    IF k = 0 THEN {<<>>}
    ELSE {crud_create_zone(t, "camA", b) : t \in ZoneTables(k - 1), b \in FrameBodies}

InitFrame ==
    /\ model_loaded \in BOOLEAN
    /\ zones \in UNION {ZoneTables(k) : k \in 0..MaxZones}
    /\ cameras = IF zones = <<>> THEN [c \in CameraIds |-> NoCamera]
                 ELSE create_camera([c \in CameraIds |-> NoCamera], "camA", 2)
    /\ alerts = <<>>
    /\ now = 0
    /\ last = Idle
    /\ flight = NoFlights
    /\ demo = NoDemo

DetectOnce ==
    /\ last = Idle
    /\ detect_handler(StoreHeaders, StoreCameras, FrameInferences, MaxZones * MaxBoxes)

Untouched ==
    /\ last = Idle
    /\ zones = <<>>
    /\ now = 0

\* the zone service is called without the model (tests/test_zones.py)
CallCheckZones ==
    /\ Untouched
    /\ ~model_loaded
    /\ \E detections \in SeqsUpTo(UnitDetections, MaxBoxes), zs \in UnitZoneSeqs :
          last' = [Answer("check_zones", 0, None, 0, "") EXCEPT
                      !.detections = detections, !.zones = zs,
                      !.alerts = check_zones(detections, zs)]
    /\ UNCHANGED <<model_loaded, flight, demo, cameras, zones, alerts, now>>

CallDetectObjects ==
    /\ Untouched
    /\ \E inference \in Inferences :
          LET inferred == model_loaded /\ ~inference.raises IN
          last' = [Answer("detect_objects", 0, None, 0, "") EXCEPT
                      !.inferred = inferred,
                      !.raw = IF inferred THEN inference.boxes ELSE <<>>,
                      !.detections = detect_objects(model_loaded, inference)]
    /\ UNCHANGED <<model_loaded, flight, demo, cameras, zones, alerts, now>>

\* the time that passes before the call
Elapse == last = Idle /\ Tick

NextFrame ==
    \/ DetectOnce
    \/ Elapse
    \/ CallCheckZones
    \/ CallDetectObjects

SpecFrame == InitFrame /\ [][NextFrame]_vars


(***************************************************************************)
(* SpecAuth: the five handlers called with every kind of Authorization     *)
(* header: none, one word, three words, another scheme, an unknown key,    *)
(* the key of a suspended user, and the keys of the two active users.      *)
(***************************************************************************)
AuthHeaders ==
    {None, <<"k2">>, <<"Bearer", "k2", "k2">>, <<"Basic", "k2">>, <<"Bearer", "kx">>,
     <<"Bearer", "k3">>, <<"Bearer", "k2">>, <<"bearer", "k1">>}
AuthInferences == {[raises |-> FALSE, boxes |-> <<BoxIn>>]}

AuthDetect == detect_handler(AuthHeaders, StoreCameras, AuthInferences, MaxAlerts)
AuthCreateZone == create_zone_handler(AuthHeaders, StoreCameras, CamerasBodies)
AuthGetZones == get_zones_handler(AuthHeaders, StoreCameras)
AuthDeleteZone == delete_zone_handler(AuthHeaders, StoreCameras)
AuthGetAlerts == get_alerts_handler(AuthHeaders, {"", "camA"}, {""})

NextAuth ==
    \/ AuthDetect
    \/ AuthCreateZone
    \/ AuthGetZones
    \/ AuthDeleteZone
    \/ AuthGetAlerts

SpecAuth == InitCameras /\ [][NextAuth]_vars

(***************************************************************************)
(* SpecOwners: two clients and two cameras; the requests are served one at *)
(* a time.  User 1 may have one camera, user 2 two; one alert is stored at *)
(* most.                                                                   *)
(***************************************************************************)
OwnersHeaders == {<<"Bearer", "k1">>, <<"bearer", "k2">>}

OwnersDetect == detect_handler(OwnersHeaders, CameraIds, CamerasInferences, 1)
OwnersCreateZone == create_zone_handler(OwnersHeaders, CameraIds, CamerasBodies)
OwnersDeleteZone == delete_zone_handler(OwnersHeaders, CameraIds)

NextOwners ==
    \/ OwnersDetect
    \/ OwnersCreateZone
    \/ OwnersDeleteZone

SpecOwners == InitCameras /\ [][NextOwners]_vars

(***************************************************************************)
(* SpecLimit: the client with the plan of one camera and two camera ids;   *)
(* detect, create zone and list zones, served one at a time.               *)
(***************************************************************************)
LimitHeaders == {<<"Bearer", "k1">>}

LimitDetect == detect_handler(LimitHeaders, CameraIds, CamerasInferences, MaxAlerts)
LimitCreateZone == create_zone_handler(LimitHeaders, CameraIds, CamerasBodies)
LimitGetZones == get_zones_handler(LimitHeaders, CameraIds)

NextLimit ==
    \/ LimitDetect
    \/ LimitCreateZone
    \/ LimitGetZones

SpecLimit == InitCameras /\ [][NextLimit]_vars

(***************************************************************************)
(* SpecZones: one client and its camera; the zones are created from        *)
(* bodies whose points are pairs, or not all pairs, or too few, then       *)
(* evaluated by detect requests and deleted.                               *)
(***************************************************************************)
ZonesBodies == {BodyA, BodyOdd, BodyTwo}

ZonesDetect == detect_handler(CamerasHeaders, StoreCameras, StoreInferences, MaxAlerts)
ZonesCreateZone == create_zone_handler(CamerasHeaders, StoreCameras, ZonesBodies)
ZonesDeleteZone == delete_zone_handler(CamerasHeaders, StoreCameras)

NextZones ==
    \/ ZonesDetect
    \/ ZonesCreateZone
    \/ ZonesDeleteZone

SpecZones == InitCameras /\ [][NextZones]_vars

(***************************************************************************)
(* SpecDemo: the interactive demo (detect_with_zones_complete.py and       *)
(* detect_with_zones.py, which handle the mouse and the keys alike).  The  *)
(* zones are loaded from zones_config.json when there is one; save_zones   *)
(* writes that file, which the demo does not read again, so the file is    *)
(* an output and not part of the state.  At most MaxPoints points are      *)
(* pending and MaxDemoZones zones are kept.                                *)
(***************************************************************************)
MinPoints == 3
ClickPoints == {<<10, 10>>, <<30, 10>>}
SavedZones == {<<>>, << <<<<10, 10>>, <<30, 10>>, <<10, 10>>>> >>}

\* __init__ with load_zones
InitDemo ==
    /\ model_loaded = TRUE
    /\ cameras = [c \in CameraIds |-> NoCamera]
    /\ zones = <<>>
    /\ alerts = <<>>
    /\ now = 0
    /\ last = Idle
    /\ flight = NoFlights
    /\ demo \in {[NoDemo EXCEPT !.zones = z] : z \in SavedZones}
Untold == <<model_loaded, cameras, zones, alerts, now, last, flight>>

\* mouse_callback(event, x, y, flags, param)
mouse_callback(lbuttondown, point) ==
    /\ lbuttondown /\ demo.drawing_mode => Len(demo.current_zone) < MaxPoints
    /\ demo' = [demo EXCEPT
                   !.mouse = point,
                   !.current_zone = IF lbuttondown /\ demo.drawing_mode
                                    THEN Append(@, point) ELSE @]
    /\ UNCHANGED Untold

\* (mutant) key 'c' completes a zone of two points
key_c_two ==
    /\ IF Len(demo.current_zone) >= MinPoints - 1
       THEN /\ Len(demo.zones) < MaxDemoZones
            /\ demo' = [demo EXCEPT !.zones = Append(@, demo.current_zone),
                                    !.current_zone = <<>>, !.drawing_mode = FALSE]
       ELSE UNCHANGED demo
    /\ UNCHANGED Untold

\* run: key 'c'
key_c ==
    /\ IF Len(demo.current_zone) >= MinPoints
       THEN /\ Len(demo.zones) < MaxDemoZones
            /\ demo' = [demo EXCEPT !.zones = Append(@, demo.current_zone),
                                    !.current_zone = <<>>, !.drawing_mode = FALSE]
       ELSE UNCHANGED demo
    /\ UNCHANGED Untold

\* run: key 'd'
key_d ==
    /\ demo' = [demo EXCEPT !.drawing_mode = ~@]
    /\ UNCHANGED Untold

\* run: key 'u'
key_u ==
    /\ demo' = [demo EXCEPT !.zones = IF Len(@) > 0 THEN SubSeq(@, 1, Len(@) - 1) ELSE @]
    /\ UNCHANGED Untold

\* run: key 'r'
key_r ==
    /\ demo' = [demo EXCEPT !.zones = <<>>, !.current_zone = <<>>, !.drawing_mode = FALSE]
    /\ UNCHANGED Untold

\* run: key 's' (save_zones writes the file)
key_s == UNCHANGED vars

\* run: key ' '
key_space ==
    /\ demo' = [demo EXCEPT !.paused = ~@]
    /\ UNCHANGED Untold

MouseEvent == \E lbuttondown \in BOOLEAN, point \in ClickPoints : mouse_callback(lbuttondown, point)

NextDemo ==
    \/ MouseEvent
    \/ key_d
    \/ key_c
    \/ key_u
    \/ key_r
    \/ key_s
    \/ key_space

SpecDemo == InitDemo /\ [][NextDemo]_vars

(***************************************************************************)
(* SpecFlight: detect requests in flight together.  A handler runs from    *)
(* one await to the next: up to the person detection, then the reading of  *)
(* the camera's zones with their evaluation, then the saving of the alerts *)
(* with the commit that ends the request.  Both cameras exist and zones    *)
(* are created meanwhile.                                                  *)
(***************************************************************************)
FlightInferences == {[raises |-> FALSE, boxes |-> b] : b \in {<<BoxIn>>, <<BoxInB>>}}

\* (mutant) the service keeps its list of alerts from one call to the next
zone_service_accumulating(detections, zs) ==
    LET kept[r \in 0..MaxRequests] ==
            IF r = 0 THEN <<>> ELSE kept[r - 1] \o flight[r].alerts
    IN  kept[MaxRequests] \o check_zones(detections, zs)

\* (mutant) a zone that has raised an alert in an earlier call is silent
zone_service_cooldown(detections, zs) ==
    SelectSeq(check_zones(detections, zs),
              LAMBDA a : \A r \in 1..MaxRequests :
                            \A k \in 1..Len(flight[r].alerts) :
                                flight[r].alerts[k].zone_id # a.zone_id)

\* zone_service.check_zones: the call on the module's one instance
zone_service_check_zones(detections, zs) == check_zones(detections, zs)

\* the request r arrives and runs up to the person detection
BeginDetect(r, headers, camera_ids, inferences) ==
    /\ flight[r].pc = "none"
    /\ r > 1 => flight[r - 1].pc # "none"
    /\ \E authorization \in headers, camera_id \in camera_ids, lookup_raises \in BOOLEAN :
          LET user == get_current_user(authorization)
              answer(status) == [NoRequest EXCEPT !.pc = "done", !.status = status,
                                                  !.user = user, !.camera_id = camera_id]
          IN  IF user = 0 THEN flight' = [flight EXCEPT ![r] = answer(401)]
              ELSE IF ~check_camera_limit(cameras, user, camera_id, lookup_raises)
                   THEN flight' = [flight EXCEPT ![r] = answer(403)]
              ELSE \/ flight' = [flight EXCEPT ![r] = answer(400)]
                   \/ \E inference \in inferences :
                          flight' = [flight EXCEPT ![r] =
                              [NoRequest EXCEPT
                                  !.pc = "detected", !.user = user, !.camera_id = camera_id,
                                  !.creates = ~get_camera(cameras, camera_id).exists,
                                  !.time = now,
                                  !.detections = detect_objects(model_loaded, inference)]]
    /\ UNCHANGED <<model_loaded, demo, cameras, zones, alerts, now, last>>

\* the request r reads the active zones of its camera and evaluates them
EvaluateDetect(r) ==
    /\ flight[r].pc = "detected"
    /\ LET zs == get_camera_zones(zones, flight[r].camera_id, TRUE) IN
       flight' = [flight EXCEPT ![r].pc = "evaluated", ![r].zones = zs,
                     ![r].alerts = zone_service_check_zones(flight[r].detections, zs)]
    /\ UNCHANGED <<model_loaded, demo, cameras, zones, alerts, now, last>>

\* the request r saves its alerts, answers, and its session is committed
FinishDetect(r, cap) ==
    /\ flight[r].pc = "evaluated"
    /\ LET q == flight[r]
           cams1 == IF q.creates THEN create_camera(cameras, q.camera_id, q.user)
                    ELSE cameras
           stored == SaveAlerts(alerts, q.zones, q.camera_id, q.alerts, now)
           orphan == \E k \in 1..Len(stored) : get_zone(zones, stored[k].zone_id) = 0
           taken == q.creates /\ get_camera(cameras, q.camera_id).exists
       IN  \E enforced \in foreign_keys :
             IF taken \/ (orphan /\ enforced)
             THEN \* IntegrityError: answered 500, the session is rolled back
                  /\ flight' = [flight EXCEPT ![r].pc = "done", ![r].status = 500]
                  /\ UNCHANGED <<cameras, alerts>>
             ELSE /\ Len(stored) <= cap
                  /\ cameras' = update_camera_last_frame(cams1, q.camera_id, q.time)
                  /\ alerts' = stored
                  /\ flight' = [flight EXCEPT ![r].pc = "done", ![r].status = 200,
                                   ![r].rows = SubSeq(stored, Len(alerts) + 1, Len(stored))]
    /\ UNCHANGED <<model_loaded, demo, zones, now, last>>

\* a delete-zone request arrives and runs up to the reading of the alerts of
\* the zone (crud.delete_zone)
BeginDelete(r, headers, camera_ids) ==
    /\ flight[r].pc = "none"
    /\ r > 1 => flight[r - 1].pc # "none"
    /\ \E authorization \in headers, camera_id \in camera_ids, zone_id \in 1..MaxZones :
          LET user == get_current_user(authorization)
              zone == get_zone(zones, zone_id)
              answer(status) == [NoRequest EXCEPT !.pc = "done", !.status = status,
                                                  !.user = user, !.camera_id = camera_id,
                                                  !.zone_id = zone_id]
          IN  flight' = [flight EXCEPT ![r] =
                  IF user = 0 THEN answer(401)
                  ELSE IF zone = 0 THEN answer(404)
                  ELSE IF zones[zone].camera_id # camera_id THEN answer(400)
                  ELSE IF \/ ~get_camera(cameras, zones[zone].camera_id).exists
                          \/ get_camera(cameras, zones[zone].camera_id).user_id # user
                       THEN answer(403)
                  ELSE [answer(0) EXCEPT
                           !.pc = "selected",
                           !.rows = SelectSeq(alerts, LAMBDA a : a.zone_id = zone_id)]]
    /\ UNCHANGED <<model_loaded, demo, cameras, zones, alerts, now, last>>

\* the delete-zone request deletes the alerts it has read, then the zone, and
\* its session is committed
FinishDelete(r) ==
    /\ flight[r].pc = "selected"
    /\ LET q == flight[r]
           read == {q.rows[k].id : k \in 1..Len(q.rows)}
           unread == \E k \in 1..Len(alerts) :
                        alerts[k].zone_id = q.zone_id /\ alerts[k].id \notin read
       IN  \E enforced \in foreign_keys :
             \/ /\ alerts' = IF enforced
                              THEN crud_delete_zone_alerts(alerts, q.zone_id)
                              ELSE SelectSeq(alerts, LAMBDA a : a.id \notin read)
                /\ zones' = crud_delete_zone(zones, q.zone_id)
                /\ flight' = [flight EXCEPT ![r].pc = "done", ![r].status = 204]
             \/ \* the flush fails on an alert of the zone that was not read
                /\ unread
                /\ flight' = [flight EXCEPT ![r].pc = "done", ![r].status = 500]
                /\ UNCHANGED <<zones, alerts>>
    /\ UNCHANGED <<model_loaded, demo, cameras, now, last>>

InitFlight ==
    /\ model_loaded = TRUE
    /\ cameras = create_camera(create_camera([c \in CameraIds |-> NoCamera], "camA", 2),
                               "camB", 2)
    /\ zones = <<>>
    /\ alerts = <<>>
    /\ now = 0
    /\ last = Idle
    /\ flight = NoFlights
    /\ demo = NoDemo

Begin == \E r \in 1..MaxRequests : BeginDetect(r, CamerasHeaders, CameraIds, FlightInferences)
Evaluate == \E r \in 1..MaxRequests : EvaluateDetect(r)
Finish == \E r \in 1..MaxRequests : FinishDetect(r, MaxRequests * MaxZones)

NextFlight ==
    \/ Begin
    \/ Evaluate
    \/ Finish
    \/ CreateZoneAny

SpecFlight == InitFlight /\ [][NextFlight]_vars

(***************************************************************************)
(* SpecRace: detect and delete-zone requests for one camera in flight      *)
(* together, the camera having one zone or two.                            *)
(***************************************************************************)
InitRace ==
    /\ model_loaded = TRUE
    /\ cameras = create_camera([c \in CameraIds |-> NoCamera], "camA", 2)
    /\ zones \in {crud_create_zone(<<>>, "camA", BodyA),
                  crud_create_zone(crud_create_zone(<<>>, "camA", BodyA), "camA", BodyB)}
    /\ alerts = <<>>
    /\ now = 0
    /\ last = Idle
    /\ flight = NoFlights
    /\ demo = NoDemo

RaceBeginDetect ==
    \E r \in 1..MaxRequests : BeginDetect(r, CamerasHeaders, StoreCameras, CamerasInferences)
RaceBeginDelete == \E r \in 1..MaxRequests : BeginDelete(r, CamerasHeaders, StoreCameras)
RaceFinishDelete == \E r \in 1..MaxRequests : FinishDelete(r)

NextRace ==
    \/ RaceBeginDetect
    \/ Evaluate
    \/ Finish
    \/ RaceBeginDelete
    \/ RaceFinishDelete

SpecRace == InitRace /\ [][NextRace]_vars

(***************************************************************************)
(* SpecRegister: detect requests of user 1, who is allowed one camera, for *)
(* cameras not yet registered, in flight together.                         *)
(***************************************************************************)
RegisterBegin ==
    \E r \in 1..MaxRequests : BeginDetect(r, LimitHeaders, CameraIds, FlightInferences)

NextRegister ==
    \/ RegisterBegin
    \/ Evaluate
    \/ Finish

SpecRegister == InitCameras /\ [][NextRegister]_vars

(***************************************************************************)
(* SpecUnit: one direct call of a function, as the unit tests do: the two  *)
(* point-in-polygon predicates on a grid of points and a few polygons, and *)
(* check_camera_limit on every table of cameras of the users 1 and 2.      *)
(***************************************************************************)
Diamond == <<<<20, 0>>, <<40, 20>>, <<20, 40>>, <<0, 20>>>>
Triangle == <<<<0, 0>>, <<40, 0>>, <<0, 40>>>>
SqClockwise == <<<<0, 40>>, <<40, 40>>, <<40, 0>>, <<0, 0>>>>
Ell == <<<<0, 0>>, <<40, 0>>, <<40, 20>>, <<20, 20>>, <<20, 40>>, <<0, 40>>>>
EllLow == <<<<0, 0>>, <<40, 0>>, <<40, 20>>, <<0, 20>>>>
EllLeft == <<<<0, 0>>, <<20, 0>>, <<20, 40>>, <<0, 40>>>>

\* a polygon with convex pieces that cover its interior
Shape(vertices, pieces) == [vertices |-> vertices, pieces |-> pieces]

Shapes ==
    { Shape(SqA, {SqA}), Shape(SqClockwise, {SqA}), Shape(Triangle, {Triangle}),
      Shape(Diamond, {Diamond}), Shape(Ell, {EllLow, EllLeft}),
      Shape(<<>>, {}), Shape(<<<<0, 0>>>>, {}), Shape(<<<<0, 0>>, <<40, 0>>>>, {}) }

GridPoints == {<<x, y>> : x \in {-10, 0, 10, 20, 30, 40, 50}, y \in {-10, 0, 10, 20, 30, 40, 50}}

CameraTables ==
    [CameraIds -> {NoCamera, create_camera([c \in CameraIds |-> NoCamera], "camA", 1)["camA"],
                   create_camera([c \in CameraIds |-> NoCamera], "camA", 2)["camA"]}]

InitUnit ==
    /\ model_loaded = FALSE
    /\ cameras \in CameraTables
    /\ zones = <<>>
    /\ alerts = <<>>
    /\ now = 0
    /\ last = Idle
    /\ flight = NoFlights
    /\ demo = NoDemo

NoCameras == \A c \in CameraIds : ~cameras[c].exists

\* zone_service.is_point_in_polygon(point, polygon)
CallIsPointInPolygon ==
    /\ last = Idle
    /\ NoCameras
    /\ \E point \in GridPoints, shape \in Shapes :
          last' = [Answer("is_point_in_polygon", 0, None, 0, "") EXCEPT
                      !.point = <<2 * point[1], 2 * point[2]>>,
                      !.polygon = shape.vertices,
                      !.result = is_point_in_polygon(<<2 * point[1], 2 * point[2]>>,
                                                     shape.vertices)]
    /\ UNCHANGED <<model_loaded, flight, demo, cameras, zones, alerts, now>>

\* CompleteZoneDemo.point_in_polygon(point, polygon)
CallPointInPolygon ==
    /\ last = Idle
    /\ NoCameras
    /\ \E point \in GridPoints, shape \in Shapes :
          LET r == point_in_polygon(point, shape.vertices) IN
          last' = [Answer("point_in_polygon", 0, None, 0, "") EXCEPT
                      !.point = <<2 * point[1], 2 * point[2]>>,
                      !.polygon = shape.vertices,
                      !.result = r.inside, !.failed = r.raised]
    /\ UNCHANGED <<model_loaded, flight, demo, cameras, zones, alerts, now>>

\* auth_service.check_camera_limit(db, user, camera_id)
CallCheckCameraLimit ==
    /\ last = Idle
    /\ \E user \in 1..Len(Users), camera_id \in CameraIds, lookup_raises \in BOOLEAN :
          last' = [Answer("check_camera_limit", 0, None, user, camera_id) EXCEPT
                      !.result = check_camera_limit(cameras, user, camera_id, lookup_raises),
                      !.failed = lookup_raises]
    /\ UNCHANGED <<model_loaded, flight, demo, cameras, zones, alerts, now>>

\* texts that are not the coordinates of a polygon: "invalid json",
\* [[1, 2, 3]], [[1, 2], [3]], 5, null, "12", ["12", "34"], [["1", "2"]],
\* [[true, false]], [[1, null]], [[1, "a"]], [[1, 2] and [[1, [2]]]
OtherTexts ==
    { <<Tok("invalid", 0), Tok("json", 0)>>,
      json_dumps(<<<<1, 2, 3>>>>),
      json_dumps(<<<<1, 2>>, <<3>>>>),
      <<Tok("n", 5)>>,
      <<Tok("null", 0)>>,
      <<Tok("s", <<"1", "2">>)>>,
      <<Tok("[", 0), Tok("s", <<"1", "2">>), Tok(",", 0), Tok("s", <<"3", "4">>), Tok("]", 0)>>,
      <<Tok("[", 0), Tok("[", 0), Tok("s", <<"1">>), Tok(",", 0), Tok("s", <<"2">>),
        Tok("]", 0), Tok("]", 0)>>,
      <<Tok("[", 0), Tok("[", 0), Tok("b", TRUE), Tok(",", 0), Tok("b", FALSE),
        Tok("]", 0), Tok("]", 0)>>,
      <<Tok("[", 0), Tok("[", 0), Tok("n", 1), Tok(",", 0), Tok("null", 0),
        Tok("]", 0), Tok("]", 0)>>,
      <<Tok("[", 0), Tok("[", 0), Tok("n", 1), Tok(",", 0), Tok("s", <<"a">>),
        Tok("]", 0), Tok("]", 0)>>,
      <<Tok("[", 0), Tok("[", 0), Tok("n", 1), Tok(",", 0), Tok("n", 2), Tok("]", 0)>>,
      <<Tok("[", 0), Tok("[", 0), Tok("n", 1), Tok(",", 0), Tok("[", 0), Tok("n", 2),
        Tok("]", 0), Tok("]", 0), Tok("]", 0)>> }

\* zone_service.parse_zone_coordinates on the coordinates_json of a zone row
\* that crud.create_zone builds from a body, and on other texts
CallParseZoneCoordinates ==
    /\ last = Idle
    /\ NoCameras
    /\ \/ \E body \in ZoneBodies :
             LET row == crud_create_zone(<<>>, "camA", body)[1] IN
             last' = [Answer("parse_zone_coordinates", 0, None, 0, "") EXCEPT
                         !.body = body, !.text = row.coordinates_json,
                         !.polygon = parse_zone_coordinates(row.coordinates_json)]
       \/ \E text \in OtherTexts :
             last' = [Answer("parse_zone_coordinates", 0, None, 0, "") EXCEPT
                         !.text = text, !.polygon = parse_zone_coordinates(text)]
    /\ UNCHANGED <<model_loaded, flight, demo, cameras, zones, alerts, now>>

NextUnit ==
    \/ CallIsPointInPolygon
    \/ CallPointInPolygon
    \/ CallCheckCameraLimit
    \/ CallParseZoneCoordinates

SpecUnit == InitUnit /\ [][NextUnit]_vars


(***************************************************************************)
(* Properties                                                              *)
(***************************************************************************)
\* the last call evaluated last.detections against last.zones
Evaluated == last.op = "check_zones" \/ (last.op = "detect" /\ last.status = 200)

\* twice the centre ((x1+x2)/2, (y1+y2)/2) of a finite bounding box lies in
\* the interior of the polygon that the zone's coordinates describe
CentreInside(zone, bbox) ==
    LET polygon == parse_zone_coordinates(zone.coordinates_json) IN
    /\ Len(polygon) >= 3
    /\ NaN \notin {bbox.x1, bbox.y1, bbox.x2, bbox.y2}
    /\ PolygonContains(polygon, <<bbox.x1 + bbox.x2, bbox.y1 + bbox.y2>>)

AlertOf(zone, detection) ==
    [zone_id |-> zone.id, zone_name |-> zone.name, alert_type |-> zone.alert_type,
     confidence |-> detection.confidence]

\* how many of the alerts are for this zone with this confidence
AlertCount(zone_id, confidence) ==
    Cardinality({k \in 1..Len(last.alerts) :
                    /\ last.alerts[k].zone_id = zone_id
                    /\ last.alerts[k].confidence = confidence})

\* the detections with this confidence whose centre lies in the zone
InsideCount(zone, confidence) ==
    Cardinality({j \in 1..Len(last.detections) :
                    /\ last.detections[j].confidence = confidence
                    /\ CentreInside(zone, last.detections[j].bbox)})

\* C1: every alert of check_zones is the alert of a pair (zone, detection)
\* of its inputs whose bounding-box centre lies in the zone's polygon, with
\* that zone's id, name and alert type and that detection's confidence, and
\* a pair whose centre is not in the polygon gets no alert.
C1_AlertsArePairs ==
    Evaluated =>
        /\ \A k \in 1..Len(last.alerts) :
              \E i \in 1..Len(last.zones), j \in 1..Len(last.detections) :
                  /\ CentreInside(last.zones[i], last.detections[j].bbox)
                  /\ last.alerts[k] = AlertOf(last.zones[i], last.detections[j])
        /\ \A i \in 1..Len(last.zones), j \in 1..Len(last.detections) :
              ~CentreInside(last.zones[i], last.detections[j].bbox) =>
                  AlertCount(last.zones[i].id, last.detections[j].confidence)
                      <= InsideCount(last.zones[i], last.detections[j].confidence)

\* a direct call with an alert for one pair and a pair that is not contained
C1_Witness ==
    /\ last.op = "check_zones"
    /\ last.alerts # <<>>
    /\ \E i \in 1..Len(last.zones), j \in 1..Len(last.detections) :
          /\ last.zones[i].active
          /\ Len(parse_zone_coordinates(last.zones[i].coordinates_json)) >= 3
          /\ ~CentreInside(last.zones[i], last.detections[j].bbox)

\* the pairs (active zone with a valid polygon, detection) with the centre inside
HitPairs ==
    {p \in (1..Len(last.zones)) \X (1..Len(last.detections)) :
        /\ last.zones[p[1]].active
        /\ CentreInside(last.zones[p[1]], last.detections[p[2]].bbox)}

\* C2: no deduplication within one call: there are as many alerts as pairs
\* (active zone with a valid polygon, detection) with the centre inside the
\* zone, and for each zone as many alerts as detections inside it.
C2_OneAlertPerPair ==
    Evaluated =>
        /\ Len(last.alerts) = Cardinality(HitPairs)
        /\ \A i \in 1..Len(last.zones) :
              Cardinality({k \in 1..Len(last.alerts) :
                              last.alerts[k].zone_id = last.zones[i].id})
                  = Cardinality({p \in HitPairs : p[1] = i})

\* one detection inside two overlapping zones, and two detections inside one zone
C2_Witness ==
    /\ last.op = "check_zones"
    /\ Len(last.zones) = 2
    /\ Len(last.detections) = 2
    /\ Cardinality(HitPairs) = 4
    /\ Len(last.alerts) = 4

\* a box of the model that is a well-formed detection
WellFormed(box) ==
    /\ NaN \notin {box.conf, box.xyxy[1], box.xyxy[2], box.xyxy[3], box.xyxy[4]}
    /\ 0 <= box.conf /\ box.conf <= 100

\* a well-formed box that the filter of the specification retains
Retained(box) ==
    /\ WellFormed(box)
    /\ box.cls = 0
    /\ box.conf >= 30
    /\ box.xyxy[3] - box.xyxy[1] >= 20
    /\ box.xyxy[4] - box.xyxy[2] >= 40

RetainedOf(boxes) ==
    LET kept == SelectSeq(boxes, Retained) IN
    [i \in 1..Len(kept) |->
        [class_name |-> "person", confidence |-> kept[i].conf,
         bbox |-> [x1 |-> kept[i].xyxy[1], y1 |-> kept[i].xyxy[2],
                   x2 |-> kept[i].xyxy[3], y2 |-> kept[i].xyxy[4]]]]

\* the last call ran detect_objects
Detected == last.op = "detect_objects" \/ (last.op = "detect" /\ last.status = 200)

C4_InactiveZoneSilent ==
    /\ Evaluated =>
          \A i \in 1..Len(last.zones) :
              ~last.zones[i].active =>
                  \A k \in 1..Len(last.alerts) : last.alerts[k].zone_id # last.zones[i].id
    /\ (last.op = "detect" /\ last.status = 200) =>
          /\ \A i \in 1..Len(last.zones) : last.zones[i].active
          /\ \A i \in 1..Len(zones) :
                ~zones[i].active =>
                    \A k \in 1..Len(alerts) : alerts[k].zone_id # zones[i].id

\* a frame with a person inside a stored inactive zone has been served
C4_Witness ==
    /\ last.op = "detect" /\ last.status = 200
    /\ \E i \in 1..Len(zones), j \in 1..Len(last.detections) :
          /\ ~zones[i].active
          /\ zones[i].camera_id = last.camera_id
          /\ CentreInside(zones[i], last.detections[j].bbox)

\* C5: in the detect request every alert, returned or stored, has the
\* confidence of a box of the frame that passes the filter and whose centre
\* lies in the alert's zone; a box below a threshold or of another class
\* gives no alert.
C5_AlertsFromFilteredOnly ==
    (last.op = "detect" /\ last.status = 200) =>
        /\ \A k \in 1..Len(last.alerts) :
              \E i \in 1..Len(last.raw), z \in 1..Len(last.zones) :
                  /\ Retained(last.raw[i])
                  /\ last.raw[i].conf = last.alerts[k].confidence
                  /\ last.zones[z].id = last.alerts[k].zone_id
                  /\ CentreInside(last.zones[z], RetainedOf(<<last.raw[i]>>)[1].bbox)
        /\ Len(alerts) = Len(last.alerts)
        /\ \A k \in 1..Len(alerts) : alerts[k].confidence = last.alerts[k].confidence
        /\ Len(last.alerts) <= Len(last.zones) * Len(SelectSeq(last.raw, Retained))

\* a frame whose only boxes fail the filter, with a centre inside an active zone
C5_Witness ==
    /\ last.op = "detect" /\ last.status = 200
    /\ last.raw # <<>>
    /\ last.alerts = <<>>
    /\ \E i \in 1..Len(last.raw), z \in 1..Len(last.zones) :
          /\ WellFormed(last.raw[i])
          /\ ~Retained(last.raw[i])
          /\ CentreInside(last.zones[z], [x1 |-> last.raw[i].xyxy[1], y1 |-> last.raw[i].xyxy[2],
                                          x2 |-> last.raw[i].xyxy[3], y2 |-> last.raw[i].xyxy[4]])


\* the number of points of the stored coordinates
StoredPoints(zone) ==
    LET j == json_loads(zone.coordinates_json) IN
    IF j.ok /\ j.val.t = "arr" THEN Len(j.val.v) ELSE 0

\* C6: an authenticated create-zone request with fewer than 3 coordinate
\* points is answered with the validation error 422 and leaves the zones as
\* they were, so that every stored zone has at least 3 coordinate points.
C6_ShortPolygonRejected ==
    /\ [][(/\ last'.op = "create_zone"
           /\ last'.user # 0
           /\ Len(last'.body.coordinates) < 3)
              => (last'.status = 422 /\ zones' = zones)]_vars
    /\ [](\A i \in 1..Len(zones) : StoredPoints(zones[i]) >= 3)

\* a request with two points has been rejected while zones are stored
C6_Witness ==
    /\ last.op = "create_zone"
    /\ last.status = 422
    /\ Len(last.body.coordinates) = 2
    /\ zones # <<>>

\* C7: a successful delete_zone(z) removes the zone z and every alert with
\* zone_id = z and leaves the other zones and alerts as they were, so that
\* every stored alert references a stored zone.
C7_DeleteCascades ==
    /\ [][(last'.op = "delete_zone" /\ last'.status = 204) =>
              LET z == last'.zone_id IN
              /\ zones' = SelectSeq(zones, LAMBDA r : r.id # z)
              /\ alerts' = SelectSeq(alerts, LAMBDA a : a.zone_id # z)
              /\ \A i \in 1..Len(zones') : zones'[i].id # z
              /\ \A k \in 1..Len(alerts') : alerts'[k].zone_id # z]_vars
    /\ [](\A k \in 1..Len(alerts) : \E i \in 1..Len(zones) : zones[i].id = alerts[k].zone_id)

\* a zone has been deleted, its alert (the first one) is gone and the alert
\* of the other zone is still there
C7_Witness ==
    /\ last.op = "delete_zone"
    /\ last.status = 204
    /\ zones # <<>>
    /\ alerts # <<>>
    /\ alerts[1].id # 1

\* the coordinates of the zone are unparsable or have fewer than 3 points
InvalidZone(zone) == Len(parse_zone_coordinates(zone.coordinates_json)) < 3

\* C8: a zone with unparsable coordinates or fewer than 3 points gets no
\* alert, every other active zone of the call gets the alerts of the
\* detections inside it, and a call without a valid zone returns no alert.
C8_BadZonesSkipped ==
    Evaluated =>
        /\ \A i \in 1..Len(last.zones) :
              InvalidZone(last.zones[i]) =>
                  \A k \in 1..Len(last.alerts) : last.alerts[k].zone_id # last.zones[i].id
        /\ \A i \in 1..Len(last.zones) :
              (last.zones[i].active /\ ~InvalidZone(last.zones[i])) =>
                  Cardinality({k \in 1..Len(last.alerts) :
                                  last.alerts[k].zone_id = last.zones[i].id})
                      = Cardinality({j \in 1..Len(last.detections) :
                                  CentreInside(last.zones[i], last.detections[j].bbox)})
        /\ (\A i \in 1..Len(last.zones) : InvalidZone(last.zones[i])) => last.alerts = <<>>

\* an unparsable zone comes first and the valid zone after it has its alert
C8_Witness ==
    /\ last.op = "check_zones"
    /\ Len(last.zones) = 2
    /\ last.zones[1].active
    /\ ~json_loads(last.zones[1].coordinates_json).ok
    /\ \E k \in 1..Len(last.alerts) : last.alerts[k].zone_id = last.zones[2].id

\* the active-hours window, if one is set, contains the time t
InWindow(active_hours, t) ==
    active_hours = None \/ (active_hours[1] <= t /\ t <= active_hours[2])

\* C9: the zones evaluated for a camera at time t are the zones of the
\* camera with active = true whose active-hours window, if set, contains t,
\* and a zone whose window does not contain t gets no alert.
C9_OnlyZonesInWindow ==
    (last.op = "detect" /\ last.status = 200) =>
        /\ last.zones = SelectSeq(zones, LAMBDA z : /\ z.camera_id = last.camera_id
                                                    /\ z.active
                                                    /\ InWindow(z.active_hours, last.time))
        /\ \A i \in 1..Len(zones) :
              ~InWindow(zones[i].active_hours, last.time) =>
                  \A k \in 1..Len(last.alerts) : last.alerts[k].zone_id # zones[i].id

\* C10: a malformed box is rejected alone: detect_objects returns exactly
\* the well-formed boxes of the frame that pass the filter, whatever else
\* the frame holds.
C10_MalformedRejectedAlone ==
    (Detected /\ last.inferred) => last.detections = RetainedOf(last.raw)


\* C11: a detect request whose person detection failed (model not loaded,
\* inference raising) is not answered with a successful response: a
\* response 200 is given only when the inference has run.
C11_FailureIsSignalled ==
    (last.op = "detect" /\ last.status = 200) => last.inferred

\* the alerts of the pairs (active zone, detection) with the centre inside
\* the zone, the pairs taken zone by zone and, within a zone, detection by
\* detection
ExpectedAlerts(detections, zs) ==
    LET d == Len(detections)
        pairs == [n \in 1..(Len(zs) * d) |-> <<((n - 1) \div d) + 1, ((n - 1) % d) + 1>>]
        hits == SelectSeq(pairs, LAMBDA p : /\ zs[p[1]].active
                                            /\ CentreInside(zs[p[1]], detections[p[2]].bbox))
    IN  [k \in 1..Len(hits) |-> AlertOf(zs[hits[k][1]], detections[hits[k][2]])]

\* C12: check_zones emits its alerts zone by zone in the order of the zone
\* list and, within one zone, in the order of the detection list.
C12_ZoneThenDetectionOrder ==
    Evaluated => last.alerts = ExpectedAlerts(last.detections, last.zones)

\* two zones with two alerts each, for two detections of different confidence
C12_Witness ==
    /\ last.op = "check_zones"
    /\ Len(last.alerts) = 4
    /\ last.alerts[1].zone_id = last.alerts[2].zone_id
    /\ last.alerts[3].zone_id = last.alerts[4].zone_id
    /\ last.alerts[1].zone_id # last.alerts[3].zone_id
    /\ last.alerts[1].confidence # last.alerts[2].confidence


\* C14: a stored alert is never changed, and it leaves the table only in
\* the step of the successful deletion of the zone it references; detect,
\* create zone, list zones and list alerts leave every stored alert as it is.
C14_AlertsImmutable ==
    [][\A k \in 1..Len(alerts) :
          \/ \E m \in 1..Len(alerts') : alerts'[m] = alerts[k]
          \/ /\ last'.op = "delete_zone"
             /\ last'.status = 204
             /\ last'.zone_id = alerts[k].zone_id]_vars

\* two alerts are stored, as created, after the alerts have been listed
C14_Witness ==
    /\ last.op = "get_alerts"
    /\ last.status = 200
    /\ Len(alerts) = 2
    /\ alerts[1].id = 1
    /\ alerts[2].id = 2
    /\ Cardinality(last.rows) = 2

\* C18: a detect request leaves the stored zones and their attributes as
\* they were, and the zones it hands to check_zones are, after the call as
\* before, the active zones of the camera as stored.
C18_ZonesUnchanged ==
    [][last'.op = "detect" =>
          /\ zones' = zones
          /\ last'.status = 200 =>
                last'.zones = SelectSeq(zones', LAMBDA z : z.camera_id = last'.camera_id
                                                            /\ z.active)]_vars

\* a detect request has raised alerts for the stored zones
C18_Witness ==
    /\ last.op = "detect"
    /\ last.status = 200
    /\ last.alerts # <<>>
    /\ Len(zones) = 2


\* C15: a detect request appends to the stored alerts one row per alert of
\* check_zones, in order, with the alert's zone id and confidence, the
\* request's camera id and detection type "person"; every stored alert has
\* the camera id of the stored zone it references.
C15_AlertsPersisted ==
    /\ [][(last'.op = "detect" /\ last'.status = 200) =>
              /\ Len(alerts') = Len(alerts) + Len(last'.alerts)
              /\ SubSeq(alerts', 1, Len(alerts)) = alerts
              /\ \A k \in 1..Len(last'.alerts) :
                    LET row == alerts'[Len(alerts) + k] IN
                    /\ row.zone_id = last'.alerts[k].zone_id
                    /\ row.camera_id = last'.camera_id
                    /\ row.detection_type = "person"
                    /\ row.confidence = last'.alerts[k].confidence]_vars
    /\ [](\A k \in 1..Len(alerts) :
             \E i \in 1..Len(zones) : /\ zones[i].id = alerts[k].zone_id
                                      /\ zones[i].camera_id = alerts[k].camera_id)

\* the alert of the last request is stored next to one of the other camera
C15_Witness ==
    /\ last.op = "detect"
    /\ last.status = 200
    /\ Len(last.alerts) = 1
    /\ alerts[Len(alerts)].camera_id = last.camera_id
    /\ \E k \in 1..Len(alerts) : alerts[k].camera_id # last.camera_id


\* the last call was one of the two point-in-polygon predicates
PolygonCall == last.op \in {"is_point_in_polygon", "point_in_polygon"}

\* C16: for a polygon of fewer than 3 points, the empty list included, the
\* point-in-polygon predicate returns false for every point and does not
\* raise.
C16_DegenerateIsFalse ==
    (PolygonCall /\ Len(last.polygon) < 3) => (~last.result /\ ~last.failed)

\* the demo's predicate has been called with the empty polygon
C16_Witness ==
    /\ last.op = "point_in_polygon"
    /\ last.polygon = <<>>
    /\ ~last.result

\* the point (half pixels) is strictly on one side of every edge of the
\* convex polygon (pixels)
InsideConvex(piece, p) ==
    LET n == Len(piece)
        nxt(i) == IF i = n THEN 1 ELSE i + 1
        cross(i) == (2 * piece[nxt(i)][1] - 2 * piece[i][1]) * (p[2] - 2 * piece[i][2])
                    - (2 * piece[nxt(i)][2] - 2 * piece[i][2]) * (p[1] - 2 * piece[i][1])
    IN  \/ \A i \in 1..n : cross(i) > 0
        \/ \A i \in 1..n : cross(i) < 0

\* the point (half pixels) is outside the bounding box of the polygon
OutsideBox(polygon, p) ==
    \/ \A i \in 1..Len(polygon) : p[1] < 2 * polygon[i][1]
    \/ \A i \in 1..Len(polygon) : p[1] > 2 * polygon[i][1]
    \/ \A i \in 1..Len(polygon) : p[2] < 2 * polygon[i][2]
    \/ \A i \in 1..Len(polygon) : p[2] > 2 * polygon[i][2]

\* C17: for a simple polygon of at least 3 vertices the predicate is true
\* for a point strictly inside it (inside one of its convex pieces) and
\* false for a point outside its bounding box.
C17_RayCastingCorrect ==
    (PolygonCall /\ Len(last.polygon) >= 3) =>
        \A shape \in Shapes :
            shape.vertices = last.polygon =>
                /\ (\E piece \in shape.pieces : InsideConvex(piece, last.point)) => last.result
                /\ OutsideBox(last.polygon, last.point) => ~last.result

\* the demo's predicate has found the centre of the diamond inside, the ray
\* from it passing through a vertex
C17_Witness ==
    /\ last.op = "point_in_polygon"
    /\ last.polygon = Diamond
    /\ last.point = <<40, 40>>
    /\ last.result

\* C20: check_camera_limit denies when the lookup fails; otherwise it
\* allows a camera of the user whatever their number, and allows another
\* camera id exactly when the user has fewer cameras than cameras_allowed.
C20_CameraLimit ==
    last.op = "check_camera_limit" =>
        LET owned == {c \in CameraIds : cameras[c].exists /\ cameras[c].user_id = last.user} IN
        IF last.failed THEN ~last.result
        ELSE IF last.camera_id \in owned THEN last.result
        ELSE last.result <=> (Cardinality(owned) < Users[last.user].cameras_allowed)

\* user 1, allowed one camera and owning two, is allowed its own camera
C20_Witness ==
    /\ last.op = "check_camera_limit"
    /\ last.user = 1
    /\ ~last.failed
    /\ \A c \in CameraIds : cameras[c].exists /\ cameras[c].user_id = 1
    /\ last.result


\* the request r has had its zones evaluated
HasEvaluated(r) ==
    \/ flight[r].pc = "evaluated"
    \/ flight[r].pc = "done" /\ flight[r].status = 200

C19_NoInterference ==
    \A r \in 1..MaxRequests :
        HasEvaluated(r) =>
            /\ \A k \in 1..Len(flight[r].zones) :
                  /\ flight[r].zones[k].camera_id = flight[r].camera_id
                  /\ flight[r].zones[k].active
            /\ flight[r].alerts = ExpectedAlerts(flight[r].detections, flight[r].zones)
            /\ flight[r].pc = "done" =>
                  /\ Len(flight[r].rows) = Len(flight[r].alerts)
                  /\ \A k \in 1..Len(flight[r].rows) :
                        /\ flight[r].rows[k].zone_id = flight[r].alerts[k].zone_id
                        /\ flight[r].rows[k].camera_id = flight[r].camera_id
                        /\ flight[r].rows[k].confidence = flight[r].alerts[k].confidence
                        /\ \E m \in 1..Len(alerts) : alerts[m] = flight[r].rows[k]

\* two requests for different cameras and different frames are in flight
\* together: the one that arrived later is finished and has saved an alert
\* while the earlier one, evaluated in a zone of its own camera without an
\* alert, is not finished yet
C19_Witness ==
    \E r1, r2 \in 1..MaxRequests :
        /\ r2 < r1
        /\ flight[r1].pc = "done"
        /\ flight[r1].status = 200
        /\ flight[r2].pc = "evaluated"
        /\ flight[r1].camera_id # flight[r2].camera_id
        /\ flight[r1].detections # flight[r2].detections
        /\ flight[r1].rows # <<>>
        /\ flight[r2].zones # <<>>
        /\ flight[r2].alerts = <<>>


\* the header is a scheme and a key, the scheme being Bearer in any case
BearerForm(authorization) ==
    /\ authorization # None
    /\ Len(authorization) = 2
    /\ authorization[1] \in {"Bearer", "bearer", "BEARER"}

\* the key is the API key of a user whose status is active
ActiveKey(api_key) ==
    \E i \in 1..Len(Users) : Users[i].api_key = api_key /\ Users[i].status = "active"

HandlerOps == {"detect", "create_zone", "get_zones", "delete_zone", "get_alerts"}

\* C21: a request is authenticated only when its Authorization header is
\* 'Bearer <key>' with the API key of an active user, and then as that user;
\* a request with no header, a malformed header, an unknown key or the key of
\* a user who is not active is answered 401, and a request answered 401
\* leaves the cameras, the zones and the alerts as they were.
C21_OnlyActiveKeysAuthenticate ==
    [][last'.op \in HandlerOps =>
          LET authorization == last'.authorization
              accepted == BearerForm(authorization) /\ ActiveKey(authorization[2])
          IN  /\ ~accepted => last'.status = 401
              /\ last'.status # 401 =>
                    /\ accepted
                    /\ last'.user \in 1..Len(Users)
                    /\ Users[last'.user].api_key = authorization[2]
              /\ last'.status = 401 => UNCHANGED <<cameras, zones, alerts>>]_vars

\* with a zone and an alert stored, a detect request with the key of the
\* suspended user has been answered 401
C21_Witness ==
    /\ last.op = "detect"
    /\ last.status = 401
    /\ last.authorization = <<"Bearer", "k3">>
    /\ zones # <<>>
    /\ alerts # <<>>


\* the text is a JSON array of arrays of two numbers
IsPairArray(text) ==
    LET j == json_loads(text) IN
    /\ j.ok
    /\ j.val.t = "arr"
    /\ \A i \in 1..Len(j.val.v) :
          /\ j.val.v[i].t = "arr"
          /\ Len(j.val.v[i].v) = 2
          /\ j.val.v[i].v[1].t = "num"
          /\ j.val.v[i].v[2].t = "num"

\* the coordinates of the body are [x, y] pairs
PairList(coordinates) == \A k \in 1..Len(coordinates) : Len(coordinates[k]) = 2

\* C22: the coordinates of a zone come back from storage: for a list of
\* [x, y] pairs that create_zone stored as coordinates_json,
\* parse_zone_coordinates returns the same points in the same order; for a
\* text that is not a JSON array of arrays of two numbers it returns the
\* empty list.
C22_CoordinatesRoundTrip ==
    last.op = "parse_zone_coordinates" =>
        /\ (last.body # NoBody /\ PairList(last.body.coordinates)) =>
              last.polygon = last.body.coordinates
        /\ ~IsPairArray(last.text) => last.polygon = <<>>


\* the alert belongs to a zone of this alert type
OfAlertType(alert, alert_type) ==
    \E i \in 1..Len(zones) : zones[i].id = alert.zone_id /\ zones[i].alert_type = alert_type

\* C23: when GET /alerts is given an alert_type, every alert of the answer
\* belongs to a zone whose alert type is that value, and the total counts
\* only such alerts.
C23_AlertTypeFilter ==
    (last.op = "get_alerts" /\ last.status = 200 /\ last.filter # "") =>
        /\ \A a \in last.rows : OfAlertType(a, last.filter)
        /\ last.total = Cardinality({k \in 1..Len(alerts) :
                                        OfAlertType(alerts[k], last.filter)})


\* the stored zone with this id, as a set of at most one row
ZoneOfId(zone_id) == {zones[i] : i \in {i \in 1..Len(zones) : zones[i].id = zone_id}}

\* C24: an authenticated delete-zone request is answered 404 when the zone
\* does not exist, else 400 when the zone is not of the camera of the path,
\* else 403 when that camera is not the requesting user's, and then zones and
\* alerts stay as they were; only otherwise is the zone removed.
C24_DeleteZoneGuards ==
    [][(last'.op = "delete_zone" /\ last'.status # 401) =>
          LET found == ZoneOfId(last'.zone_id)
              kept == <<zones, alerts>>' = <<zones, alerts>>
          IN  IF found = {} THEN last'.status = 404 /\ kept
              ELSE LET zone == CHOOSE z \in found : TRUE IN
                   IF zone.camera_id # last'.camera_id THEN last'.status = 400 /\ kept
                   ELSE IF \/ ~cameras[zone.camera_id].exists
                           \/ cameras[zone.camera_id].user_id # last'.user
                        THEN last'.status = 403 /\ kept
                   ELSE /\ last'.status = 204
                        /\ zones' = SelectSeq(zones, LAMBDA z : z.id # last'.zone_id)
                        /\ alerts' = SelectSeq(alerts, LAMBDA a : a.zone_id # last'.zone_id)
      ]_vars

\* a zone of another user's camera, with its alert stored, was named under
\* the path of the other camera: the answer is 400, before the ownership is
\* looked at
C24_Witness ==
    /\ last.op = "delete_zone"
    /\ last.status = 400
    /\ \E z \in ZoneOfId(last.zone_id) :
          /\ cameras[z.camera_id].user_id # last.user
          /\ \E k \in 1..Len(alerts) : alerts[k].zone_id = z.id


\* C25: in the demo, started with zones of at least 3 points, every zone of
\* the list has at least 3 points after any keys and clicks; a click adds its
\* point to the pending zone only while the drawing mode is on; 'c' with at
\* least 3 pending points appends exactly these points as one zone, clears
\* the pending points and leaves the drawing mode; 'c' with fewer changes
\* neither the zones nor the pending points.
C25_DemoZonesHaveThreePoints ==
    /\ [](\A k \in 1..Len(demo.zones) : Len(demo.zones[k]) >= 3)
    /\ [][/\ ~demo.drawing_mode => \/ demo'.current_zone = demo.current_zone
                                    \/ demo'.current_zone = <<>>
          /\ Len(demo'.current_zone) > Len(demo.current_zone) =>
                /\ demo.drawing_mode
                /\ demo'.current_zone = Append(demo.current_zone, demo'.mouse)
                /\ demo'.zones = demo.zones
          /\ Len(demo'.zones) > Len(demo.zones) =>
                /\ Len(demo.current_zone) >= 3
                /\ demo'.zones = Append(demo.zones, demo.current_zone)
                /\ demo'.current_zone = <<>>
                /\ ~demo'.drawing_mode]_vars
    /\ [][key_c /\ Len(demo.current_zone) < 3 =>
              /\ demo'.zones = demo.zones
              /\ demo'.current_zone = demo.current_zone]_vars

\* a zone drawn with three clicks at two places stands in the list, nothing
\* is pending and the drawing mode is off
C25_Witness ==
    /\ Len(demo.zones) = 1
    /\ demo.zones[1] = <<<<10, 10>>, <<30, 10>>, <<30, 10>>>>
    /\ demo.current_zone = <<>>
    /\ ~demo.drawing_mode


\* C26: after any sequence of authenticated detect, create-zone and
\* list-zones requests served one at a time, no user owns more cameras than
\* the cameras_allowed of the user.
C26_CameraLimitKept ==
    \A u \in 1..Len(Users) :
        Cardinality(get_user_cameras(cameras, u)) <= Users[u].cameras_allowed


\* C27: an alert is recorded only by a detect request of the owner of its
\* camera: a detect request that names a camera owned by another user adds
\* no alert and leaves the last-frame time of that camera as it was.
C27_OnlyOwnerRecords ==
    [][(/\ last'.op = "detect"
        /\ cameras[last'.camera_id].exists
        /\ cameras[last'.camera_id].user_id # last'.user)
       => /\ alerts' = alerts
          /\ cameras'[last'.camera_id] = cameras[last'.camera_id]]_vars


\* C28: every zone stored by a create-zone request that succeeded can be
\* evaluated: parse_zone_coordinates of its coordinates_json returns at least
\* 3 points, so that check_zones does not skip it as invalid.
C28_StoredZonesEvaluable ==
    \A i \in 1..Len(zones) : Len(parse_zone_coordinates(zones[i].coordinates_json)) >= 3


\* C29: under every interleaving of a detect request and a delete-zone
\* request for the same camera, once the requests have completed no stored
\* alert references a zone that no longer exists.
C29_NoOrphanAlert ==
    (\A r \in 1..MaxRequests : flight[r].pc \in {"none", "done"}) =>
        \A k \in 1..Len(alerts) : get_zone(zones, alerts[k].zone_id) # 0


\* C30: when detect requests of one user for different cameras that are not
\* yet registered run concurrently, the number of cameras of that user never
\* exceeds the user's cameras_allowed.
C30_ConcurrentLimitKept ==
    \A r \in 1..MaxRequests :
        flight[r].user # 0 =>
            Cardinality(get_user_cameras(cameras, flight[r].user))
                <= Users[flight[r].user].cameras_allowed

====
